---- MODULE Spec2Model ----
(***************************************************************************)
(* Model of the Trakt MCP server: the resilient API client                 *)
(* (src/src/api/__init__.py), its error taxonomy                           *)
(* (src/src/exceptions/__init__.py) and the two tool-adapter layers        *)
(* (src/src/server.py and src/src/tools/*.py).                             *)
(*                                                                         *)
(* One client call is followed from its entry point to the value or        *)
(* exception that leaves that entry point.  A call is suspended at its     *)
(* await points only: the HTTP request (api/__init__.py:96) and the        *)
(* back-off sleep of the retry decorator (api/__init__.py:72-81).          *)
(*                                                                         *)
(* Texts (response bodies, identifiers) are sequences of one-character     *)
(* strings, so that slicing, int() and JSON parsing are computed.          *)
(***************************************************************************)
EXTENDS Integers, Sequences, FiniteSets, TLC

VARIABLES
    pc,             \* position of the call: "idle", "request", "backoff", "done"
    call,           \* entry point of the call and the HTTP request it makes
    attempt_number, \* tenacity's retry_state.attempt_number
    attempts,       \* HTTP requests issued by the call so far
    answered,       \* how many of them received an HTTP response
    sleeps,         \* back-off delays slept by the call, in order
    response,       \* what the last attempt got: a response or a transport fault
    json_calls,     \* calls of response.json() made by the call
    log,            \* the last record written to the logger by _make_request
    outcome,        \* what left _make_request (through the retry decorator)
    result,         \* what left the entry point of the call
    env,            \* the process environment: the three required settings
    argv,           \* the transport chosen on the command line
    proc,           \* position of the process, from import to the end of main
    error,          \* the exception that ended the process or the session
    http_client,    \* the httpx.AsyncClient of the TraktAPIClient
    closes,         \* invocations of TraktAPIClient.close so far
    tasks,          \* the concurrently running tool invocations
    conns           \* connections of the pool in use

\* the state of one call
callVars == <<pc, call, attempt_number, attempts, answered, sleeps, response,
              json_calls, log, outcome, result>>

\* the state of the process and of the client shared by its tool invocations
serverVars == <<env, argv, proc, error, http_client, closes, tasks, conns>>

vars == <<callVars, serverVars>>

----------------------------------------------------------------------------
(* Bounds of the model *)

\* length of the longest body of an error response (twice the logged excerpt)
MaxBodyLen == 400

----------------------------------------------------------------------------
(* Small helpers *)

Min(a, b) == IF a <= b THEN a ELSE b
Max(a, b) == IF a >= b THEN a ELSE b

RECURSIVE Pow(_, _)
Pow(b, e) == IF e = 0 THEN 1 ELSE b * Pow(b, e - 1)

\* Python's None where the code has an int | None
None == -1

\* text[:n]
Prefix(text, n) == SubSeq(text, 1, Min(Len(text), n))

\* a text of n characters
Filler(n) == [i \in 1..n |-> "x"]

----------------------------------------------------------------------------
(* JSON: the loosely typed payloads of the remote API.                      *)
(* A value is a record [t, v]: t is its Python type after json parsing,     *)
(* v its content (a sequence of <<key, value>> pairs for a dict, of values  *)
(* for a list, of characters for a str; a number for an int).               *)

JObject(pairs) == [t |-> "dict", v |-> pairs]
JArray(items)  == [t |-> "list", v |-> items]
JString(chars) == [t |-> "str",  v |-> chars]
JNumber(n)     == [t |-> "int",  v |-> n]

\* the {} that _make_request returns for an empty response
EmptyResult == JObject(<<>>)

DigitChars == <<"0", "1", "2", "3", "4", "5", "6", "7", "8", "9">>
IsDigit(c) == \E i \in 1..Len(DigitChars) : DigitChars[i] = c
DigitValue(c) == (CHOOSE i \in 1..Len(DigitChars) : DigitChars[i] = c) - 1

\* the number written by the digits s[i..j]
RECURSIVE DigitsValue(_, _, _)
DigitsValue(s, i, j) ==
    IF j < i THEN 0 ELSE 10 * DigitsValue(s, i, j - 1) + DigitValue(s[j])

ParseFail == [ok |-> FALSE, val |-> EmptyResult, next |-> 0]
ParseOk(val, next) == [ok |-> TRUE, val |-> val, next |-> next]

\* the first position from i on that holds no digit
RECURSIVE DigitsEnd(_, _)
DigitsEnd(s, i) ==
    IF i <= Len(s) /\ IsDigit(s[i]) THEN DigitsEnd(s, i + 1) ELSE i

\* a JSON string starting at the quote s[i] (no escapes in the modelled texts)
ParseString(s, i) ==
    IF i > Len(s) \/ s[i] # "\"" THEN ParseFail
    ELSE IF ~ \E j \in (i + 1)..Len(s) : s[j] = "\"" THEN ParseFail
    ELSE LET j == CHOOSE k \in (i + 1)..Len(s) :
                      /\ s[k] = "\""
                      /\ \A m \in (i + 1)..(k - 1) : s[m] # "\""
         IN  ParseOk(JString(SubSeq(s, i + 1, j - 1)), j + 1)

\* a JSON number: digits, no leading zero
ParseNumber(s, i) ==
    LET e == DigitsEnd(s, i)
    IN  IF e = i \/ (s[i] = "0" /\ e > i + 1) THEN ParseFail
        ELSE ParseOk(JNumber(DigitsValue(s, i, e - 1)), e)

RECURSIVE ParseValue(_, _), ParseElements(_, _, _), ParseMembers(_, _, _)

\* the JSON value that starts at s[i]
ParseValue(s, i) ==
    IF i > Len(s) THEN ParseFail
    ELSE IF IsDigit(s[i]) THEN ParseNumber(s, i)
    ELSE IF s[i] = "\"" THEN ParseString(s, i)
    ELSE IF s[i] = "[" THEN
        IF i + 1 <= Len(s) /\ s[i + 1] = "]" THEN ParseOk(JArray(<<>>), i + 2)
        ELSE ParseElements(s, i + 1, <<>>)
    ELSE IF s[i] = "{" THEN
        IF i + 1 <= Len(s) /\ s[i + 1] = "}" THEN ParseOk(JObject(<<>>), i + 2)
        ELSE ParseMembers(s, i + 1, <<>>)
    ELSE ParseFail

\* the rest of a list after "[" or ",": value ("," value)* "]"
ParseElements(s, i, acc) ==
    LET r == ParseValue(s, i)
    IN  IF ~r.ok \/ r.next > Len(s) THEN ParseFail
        ELSE IF s[r.next] = "," THEN ParseElements(s, r.next + 1, Append(acc, r.val))
        ELSE IF s[r.next] = "]" THEN ParseOk(JArray(Append(acc, r.val)), r.next + 1)
        ELSE ParseFail

\* the rest of a dict after "{" or ",": string ":" value ("," ...)* "}"
ParseMembers(s, i, acc) ==
    LET k == ParseString(s, i)
    IN  IF ~k.ok \/ k.next > Len(s) \/ s[k.next] # ":" THEN ParseFail
        ELSE LET r == ParseValue(s, k.next + 1)
                 pairs == Append(acc, <<k.val.v, r.val>>)
             IN  IF ~r.ok \/ r.next > Len(s) THEN ParseFail
                 ELSE IF s[r.next] = "," THEN ParseMembers(s, r.next + 1, pairs)
                 ELSE IF s[r.next] = "}" THEN ParseOk(JObject(pairs), r.next + 1)
                 ELSE ParseFail

\* response.json(): the parsed body, or ok = FALSE where json raises
\* json.JSONDecodeError (the whole text must be one JSON value)
JsonLoads(text) ==
    LET r == ParseValue(text, 1)
    IN  IF r.ok /\ r.next = Len(text) + 1
        THEN [ok |-> TRUE, val |-> r.val]
        ELSE [ok |-> FALSE, val |-> EmptyResult]

\* isinstance(x, list), isinstance(x, dict)
IsList(x) == x.t = "list"
IsDict(x) == x.t = "dict"

\* d.get(key, default) on a dict: the last pair with that key wins
HasKey(d, key) == \E i \in 1..Len(d.v) : d.v[i][1] = key
DictGet(d, key, default) ==
    IF HasKey(d, key)
    THEN LET i == CHOOSE k \in 1..Len(d.v) :
                      /\ d.v[k][1] = key
                      /\ \A m \in (k + 1)..Len(d.v) : d.v[m][1] # key
         IN  d.v[i][2]
    ELSE default

----------------------------------------------------------------------------
(* Exceptions: the taxonomy of src/src/exceptions/__init__.py, the httpx    *)
(* exceptions the client catches, and the built-in ones that can escape.    *)
(* An exception is [cls, status_code, message]; a message is the format     *)
(* string with the values interpolated into it.                             *)

Msg(fmt, status, text) == [fmt |-> fmt, status |-> status, text |-> text]

Exc(cls, status_code, message) ==
    [cls |-> cls, status_code |-> status_code, message |-> message]

NoExc == Exc("", None, Msg("", None, <<>>))

\* class TraktAPIError(Exception)
TraktAPIError(message, status_code) == Exc("TraktAPIError", status_code, message)

\* class AuthenticationError(TraktAPIError), with its default message
AuthenticationError ==
    Exc("AuthenticationError", 401,
        Msg("Authentication required. Please configure TRAKT_ACCESS_TOKEN.", None, <<>>))

\* class ResourceNotFoundError(TraktAPIError), with its default message
ResourceNotFoundError ==
    Exc("ResourceNotFoundError", 404, Msg("Resource not found on Trakt", None, <<>>))

\* class NetworkError(TraktAPIError): the message is prefixed, no status code
NetworkError(message) ==
    Exc("NetworkError", None, Msg("Network error: " \o message, None, <<>>))

\* exceptions raised by built-ins and by json, none of them in the taxonomy
BuiltinError(cls) == Exc(cls, None, Msg(cls, None, <<>>))

\* the direct base class of each class
BaseOf(cls) ==
    CASE cls = "AuthenticationError"   -> "TraktAPIError"
      [] cls = "ResourceNotFoundError" -> "TraktAPIError"
      [] cls = "NetworkError"          -> "TraktAPIError"
      [] cls = "TraktAPIError"         -> "Exception"
      [] cls = "JSONDecodeError"       -> "ValueError"
      [] cls = "ConnectTimeout"        -> "TimeoutException"
      [] cls = "ReadTimeout"           -> "TimeoutException"
      [] cls = "WriteTimeout"          -> "TimeoutException"
      [] cls = "PoolTimeout"           -> "TimeoutException"
      [] cls = "TimeoutException"      -> "TransportError"
      [] cls = "ConnectError"          -> "TransportError"
      [] cls = "ReadError"             -> "TransportError"
      [] cls = "TransportError"        -> "RequestError"
      [] cls = "TooManyRedirects"      -> "RequestError"
      [] cls = "RequestError"          -> "HTTPError"
      [] cls = "HTTPStatusError"       -> "HTTPError"
      [] cls = "Exception"             -> "BaseException"
      [] cls = "CancelledError"        -> "BaseException"
      [] cls = "KeyboardInterrupt"     -> "BaseException"
      [] OTHER                         -> "Exception"

\* isinstance(e, base) for an exception of class cls
RECURSIVE IsInstance(_, _)
IsInstance(cls, base) ==
    IF cls = base THEN TRUE
    ELSE IF cls = "BaseException" THEN FALSE
    ELSE IsInstance(BaseOf(cls), base)

\* the closed set of error kinds of the taxonomy
Taxonomy == {"TraktAPIError", "AuthenticationError", "ResourceNotFoundError", "NetworkError"}

----------------------------------------------------------------------------
(* The environment: what self.http_client.request(...) produces for one     *)
(* attempt, either an HTTP response or an httpx exception.                  *)

\* excerpt of the response text that _make_request logs for an HTTP error
BODY_LOG_LIMIT == 200

HttpResponse(status_code, content) ==
    [kind |-> "response", status_code |-> status_code, content |-> content, fault |-> ""]

TransportFault(cls) ==
    [kind |-> "fault", status_code |-> None, content |-> <<>>, fault |-> cls]

NoResponse == [kind |-> "none", status_code |-> None, content |-> <<>>, fault |-> ""]

\* the httpx exceptions of the model: the four timeouts, a failed connection,
\* a failed read, and a RequestError that is no TransportError
Faults == {"ConnectTimeout", "ReadTimeout", "WriteTimeout", "PoolTimeout",
           "ConnectError", "ReadError", "TooManyRedirects"}

SuccessStatuses == {200, 201, 204}
ErrorStatuses   == {400, 401, 404, 429, 500, 503}

\* {"added":{"shows":1}}
AddedBody ==
    <<"{", "\"", "a", "d", "d", "e", "d", "\"", ":",
      "{", "\"", "s", "h", "o", "w", "s", "\"", ":", "1", "}", "}">>

\* bodies of 2xx responses: empty, JSON dicts and lists, and texts that are no JSON
SuccessBodies ==
    { <<>>,
      <<"{", "}">>,
      AddedBody,
      <<"[", "]">>,
      <<"[", "{", "}", "]">>,
      <<"[", "{", "}", ",", "{", "}", "]">>,
      <<"[", "1", "]">>,
      <<"<", "h", "t", "m", "l", ">">>,
      <<"[", "{", "}">> }

\* bodies of error responses: empty, short, exactly the logged excerpt, and longer
ErrorBodies ==
    { <<>>, <<"{", "}">>, Filler(BODY_LOG_LIMIT), Filler(MaxBodyLen) }

Responses ==
    {TransportFault(f) : f \in Faults}
    \cup {HttpResponse(st, b) : st \in SuccessStatuses, b \in SuccessBodies}
    \cup {HttpResponse(st, b) : st \in ErrorStatuses, b \in ErrorBodies}

----------------------------------------------------------------------------
(* TraktAPIClient._make_request: one execution of its body, and the retry   *)
(* decorator around it.                                                     *)

LogRecord(level, fmt, status, text) ==
    [level |-> level, fmt |-> fmt, status |-> status, text |-> text]

NoLog == LogRecord("", "", None, <<>>)

\* what one execution of the body produces
Returned(value, parses) ==
    [kind |-> "return", value |-> value, exc |-> NoExc,
     json_calls |-> parses, log |-> NoLog]

Raised(exc, parses, record) ==
    [kind |-> "raise", value |-> EmptyResult, exc |-> exc,
     json_calls |-> parses, log |-> record]

\* response.raise_for_status() raises httpx.HTTPStatusError
RaisesForStatus(status_code) == ~(200 <= status_code /\ status_code < 300)

\* the message of the generic error for an HTTP status without a class of its own
HttpErrorMessage(status_code, text) ==
    Msg("HTTP {status_code}: {text}", status_code, text)

\* a handler that has lost its 404 branch
OnHTTPStatusErrorWithout404(r) ==
    IF r.status_code = 401 THEN
        Raised(AuthenticationError, 0,
               LogRecord("error", "Authentication failed - check TRAKT_ACCESS_TOKEN", None, <<>>))
    ELSE IF r.status_code = 429 THEN
        Raised(TraktAPIError(Msg("Rate limit exceeded. Please try again later.", None, <<>>), 429), 0,
               LogRecord("warning", "Rate limited on {endpoint}", None, <<>>))
    ELSE
        Raised(TraktAPIError(HttpErrorMessage(r.status_code, r.content), r.status_code), 0,
               LogRecord("error", "HTTP {status_code} error on {endpoint}: {text[:200]}",
                         r.status_code, Prefix(r.content, BODY_LOG_LIMIT)))

\* a handler that treats a rate limit as a transient network failure
OnHTTPStatusErrorRetrying429(r) ==
    IF r.status_code = 401 THEN
        Raised(AuthenticationError, 0,
               LogRecord("error", "Authentication failed - check TRAKT_ACCESS_TOKEN", None, <<>>))
    ELSE IF r.status_code = 404 THEN
        Raised(ResourceNotFoundError, 0,
               LogRecord("warning", "Resource not found: {endpoint}", None, <<>>))
    ELSE IF r.status_code = 429 THEN
        Raised(NetworkError("Rate limit exceeded. Please try again later."), 0,
               LogRecord("warning", "Rate limited on {endpoint}", None, <<>>))
    ELSE
        Raised(TraktAPIError(HttpErrorMessage(r.status_code, r.content), r.status_code), 0,
               LogRecord("error", "HTTP {status_code} error on {endpoint}: {text[:200]}",
                         r.status_code, Prefix(r.content, BODY_LOG_LIMIT)))

\* except httpx.HTTPStatusError as e
OnHTTPStatusError(r) ==
    IF r.status_code = 401 THEN
        Raised(AuthenticationError, 0,
               LogRecord("error", "Authentication failed - check TRAKT_ACCESS_TOKEN", None, <<>>))
    ELSE IF r.status_code = 404 THEN
        Raised(ResourceNotFoundError, 0,
               LogRecord("warning", "Resource not found: {endpoint}", None, <<>>))
    ELSE IF r.status_code = 429 THEN
        Raised(TraktAPIError(Msg("Rate limit exceeded. Please try again later.", None, <<>>), 429), 0,
               LogRecord("warning", "Rate limited on {endpoint}", None, <<>>))
    ELSE
        Raised(TraktAPIError(HttpErrorMessage(r.status_code, r.content), r.status_code), 0,
               LogRecord("error", "HTTP {status_code} error on {endpoint}: {text[:200]}",
                         r.status_code, Prefix(r.content, BODY_LOG_LIMIT)))

\* the except clauses for what the request itself raises, in source order
OnRequestException(r) ==
    IF IsInstance(r.fault, "TimeoutException") THEN
        Raised(NetworkError("Request timeout: {e}"), 0,
               LogRecord("warning", "Request timeout on {endpoint}: {e}", None, <<>>))
    ELSE IF IsInstance(r.fault, "ConnectError") THEN
        Raised(NetworkError("Connection failed: {e}"), 0,
               LogRecord("warning", "Connection error on {endpoint}: {e}", None, <<>>))
    ELSE IF IsInstance(r.fault, "RequestError") THEN
        Raised(NetworkError("{e}"), 0,
               LogRecord("warning", "Request error on {endpoint}: {e}", None, <<>>))
    ELSE Raised(BuiltinError(r.fault), 0, NoLog)

\* the success path after raise_for_status: an empty result without parsing,
\* or response.json(), whose JSONDecodeError no except clause catches
OnSuccess(r) ==
    IF r.status_code = 204 \/ r.content = <<>> THEN Returned(EmptyResult, 0)
    ELSE LET parsed == JsonLoads(r.content)
         IN  IF parsed.ok THEN Returned(parsed.val, 1)
             ELSE Raised(BuiltinError("JSONDecodeError"), 1, NoLog)

\* the body of _make_request, given what the request produced
MakeRequestBody(r) ==
    IF r.kind = "fault" THEN OnRequestException(r)
    ELSE IF RaisesForStatus(r.status_code) THEN OnHTTPStatusError(r)
    ELSE OnSuccess(r)

\* @retry(...) parameters
MAX_ATTEMPTS    == 3
WAIT_MULTIPLIER == 1
WAIT_MIN        == 2
WAIT_MAX        == 10
WAIT_EXP_BASE   == 2

\* a retry condition that also retries the other errors of the taxonomy
RetryIfTaxonomyError(out) ==
    out.kind = "raise" /\ IsInstance(out.exc.cls, "TraktAPIError")

\* a retry condition that retries whatever an attempt raises
RetryIfAnyException(out) == out.kind = "raise"

\* retry=retry_if_exception_type(NetworkError)
RetryIfExceptionType(out) ==
    out.kind = "raise" /\ IsInstance(out.exc.cls, "NetworkError")

\* a stop condition that allows one attempt too many
StopAfterAttemptOffByOne(n) == n > MAX_ATTEMPTS

\* stop=stop_after_attempt(3)
StopAfterAttempt(n) == n >= MAX_ATTEMPTS

\* wait=wait_exponential(multiplier=1, min=2, max=10), as tenacity computes it:
\* max(max(0, min), min(multiplier * exp_base ** (attempt_number - 1), max))
WaitExponential(n) ==
    Max(Max(0, WAIT_MIN), Min(WAIT_MULTIPLIER * Pow(WAIT_EXP_BASE, n - 1), WAIT_MAX))

\* tenacity's decision after attempt n produced out: "sleep" before another
\* attempt, or "finish"
RetryAction(n, out) ==
    IF RetryIfExceptionType(out) /\ ~StopAfterAttempt(n) THEN "sleep" ELSE "finish"

\* what leaves the decorator when it finishes after out: a value or an
\* exception that is not retried passes through, and reraise=True makes the
\* exhausted retries raise the last attempt's own exception
RetryFinish(out) == [kind |-> out.kind, value |-> out.value, exc |-> out.exc]

----------------------------------------------------------------------------
(* TraktAPIClient: one method per remote operation, each a fixed request    *)
(* through _make_request and a coercion of what comes back.                 *)

\* number of results asked of /search/show
SEARCH_LIMIT == 10

\* keys of the payloads the client builds and the adapters read
K_shows    == <<"s", "h", "o", "w", "s">>
K_episodes == <<"e", "p", "i", "s", "o", "d", "e", "s">>
K_ids      == <<"i", "d", "s">>
K_trakt    == <<"t", "r", "a", "k", "t">>
K_added    == <<"a", "d", "d", "e", "d">>
K_deleted  == <<"d", "e", "l", "e", "t", "e", "d">>

\* the arguments of a client method; a method reads the ones it declares
Args(show_id, episode_id, query, limit, season) ==
    [show_id |-> show_id, episode_id |-> episode_id, query |-> query,
     limit |-> limit, season |-> season]

NoArgs == Args(<<>>, <<>>, <<>>, None, None)

\* the request a method hands to _make_request: the endpoint is a path template
\* with the values formatted into it, params and json are the keyword arguments
Request(method, path, path_id, path_n, extended, query, limit, json) ==
    [method |-> method, path |-> path, path_id |-> path_id, path_n |-> path_n,
     extended |-> extended, query |-> query, limit |-> limit, json |-> json]

NoJson == [t |-> "none", v |-> <<>>]

NoRequest == Request("", "", <<>>, None, "", <<>>, None, NoJson)

\* int(s) of a str: its value, or ok = FALSE where int raises ValueError
PyInt(chars) ==
    IF Len(chars) > 0 /\ \A i \in 1..Len(chars) : IsDigit(chars[i])
    THEN [ok |-> TRUE, val |-> DigitsValue(chars, 1, Len(chars))]
    ELSE [ok |-> FALSE, val |-> 0]

\* a payload that names the identifier without the "ids" wrapper
IdsPayloadWithoutIds(kind, n) ==
    JObject(<< <<kind, JArray(<< JObject(<< <<K_trakt, JNumber(n)>> >>) >>)>> >>)

\* {kind: [{"ids": {"trakt": n}}]}
IdsPayload(kind, n) ==
    JObject(<< <<kind, JArray(<< JObject(<< <<K_ids,
                  JObject(<< <<K_trakt, JNumber(n)>> >>)>> >>) >>)>> >>)

\* a search that leaves the number of results to the remote API
SearchShowsRequestWithoutLimit(query) ==
    Request("GET", "/search/show", <<>>, None, "", query, None, NoJson)

\* the request of search_shows: params={"query": query, "limit": SEARCH_LIMIT}
SearchShowsRequest(query) ==
    Request("GET", "/search/show", <<>>, None, "", query, SEARCH_LIMIT, NoJson)

\* the methods that return a list, and those that return a dict
ListMethods ==
    {"get_watched_shows", "get_watchlist", "search_shows", "get_trending_shows",
     "get_show_all_episodes", "get_show_season_episodes"}
DictMethods == {"add_to_watchlist", "remove_from_watchlist", "mark_episode_as_watched"}

\* the part of a method before its await: the request it builds, or the
\* ValueError of int() where the identifier is no number
BuildRequest(name, args) ==
    LET ok(req) == [ok |-> TRUE, req |-> req, exc |-> NoExc]
        bad     == [ok |-> FALSE, req |-> NoRequest, exc |-> BuiltinError("ValueError")]
    IN  CASE name = "_make_request" ->
               ok(Request("GET", "{endpoint}", <<>>, None, "", <<>>, None, NoJson))
          [] name = "get_watched_shows" ->
               ok(Request("GET", "/sync/watched/shows", <<>>, None, "full", <<>>, None, NoJson))
          [] name = "get_watchlist" ->
               ok(Request("GET", "/sync/watchlist/shows", <<>>, None, "full", <<>>, None, NoJson))
          [] name = "add_to_watchlist" ->
               IF PyInt(args.show_id).ok
               THEN ok(Request("POST", "/sync/watchlist", <<>>, None, "", <<>>, None,
                               IdsPayload(K_shows, PyInt(args.show_id).val)))
               ELSE bad
          [] name = "remove_from_watchlist" ->
               IF PyInt(args.show_id).ok
               THEN ok(Request("POST", "/sync/watchlist/remove", <<>>, None, "", <<>>, None,
                               IdsPayload(K_shows, PyInt(args.show_id).val)))
               ELSE bad
          [] name = "search_shows" ->
               ok(SearchShowsRequest(args.query))
          [] name = "get_trending_shows" ->
               ok(Request("GET", "/shows/trending?limit={limit}", <<>>, args.limit, "", <<>>, None, NoJson))
          [] name = "get_show_all_episodes" ->
               ok(Request("GET", "/shows/{show_id}/seasons", args.show_id, None, "episodes", <<>>, None, NoJson))
          [] name = "get_show_season_episodes" ->
               ok(Request("GET", "/shows/{show_id}/seasons/{season}", args.show_id, args.season,
                          "min", <<>>, None, NoJson))
          [] name = "mark_episode_as_watched" ->
               IF PyInt(args.episode_id).ok
               THEN ok(Request("POST", "/sync/history", <<>>, None, "", <<>>, None,
                               IdsPayload(K_episodes, PyInt(args.episode_id).val)))
               ELSE bad

\* what leaves a layer: a value or an exception
Return(value) == [kind |-> "return", value |-> value, exc |-> NoExc]
Raise(exc)    == [kind |-> "raise", value |-> EmptyResult, exc |-> exc]
NoResult      == [kind |-> "none", value |-> EmptyResult, exc |-> NoExc]

\* a method that returns whatever _make_request gave it
ClientReturnUncoerced(name, out) ==
    IF out.kind = "raise" THEN Raise(out.exc) ELSE Return(out.value)

\* the part of a method after its await: result if isinstance(result, T) else
\* the empty T; an exception of _make_request passes through
ClientReturn(name, out) ==
    IF out.kind = "raise" THEN Raise(out.exc)
    ELSE IF name \in ListMethods THEN Return(IF IsList(out.value) THEN out.value ELSE JArray(<<>>))
    ELSE IF name \in DictMethods THEN Return(IF IsDict(out.value) THEN out.value ELSE EmptyResult)
    ELSE Return(out.value)

----------------------------------------------------------------------------
(* Python operations on loosely typed values, with the exception they raise *)
(* on a value of the wrong type.                                            *)

Val(x)   == [ok |-> TRUE, val |-> x, err |-> ""]
Err(cls) == [ok |-> FALSE, val |-> EmptyResult, err |-> cls]

\* None, as d.get(key) gives for a missing key
PyNone == [t |-> "NoneType", v |-> <<>>]

\* x.get(key, default): only a dict has .get
PyGet(x, key, default) ==
    IF IsDict(x) THEN Val(DictGet(x, key, default)) ELSE Err("AttributeError")

\* bool(x)
Truthy(x) ==
    CASE x.t = "int"      -> x.v # 0
      [] x.t = "NoneType" -> FALSE
      [] OTHER            -> Len(x.v) > 0

\* len(x)
PyLen(x) ==
    IF x.t \in {"list", "str", "dict"} THEN Val(JNumber(Len(x.v))) ELSE Err("TypeError")

\* x[:n]
PySlice(x, n) ==
    IF x.t \in {"list", "str"} THEN Val([t |-> x.t, v |-> Prefix(x.v, n)]) ELSE Err("TypeError")

\* f"{x:.1f}" and f"{x:,}": a number formats, a str raises ValueError, the rest TypeError
PyFormatNumber(x) ==
    IF x.t = "int" THEN Val(x)
    ELSE IF x.t = "str" THEN Err("ValueError")
    ELSE Err("TypeError")

\* literal strings of the formatters
S_Unknown == <<"U", "n", "k", "n", "o", "w", "n">>
S_NA      == <<"N", "/", "A">>

K_show            == <<"s", "h", "o", "w">>
K_title           == <<"t", "i", "t", "l", "e">>
K_year            == <<"y", "e", "a", "r">>
K_seasons         == <<"s", "e", "a", "s", "o", "n", "s">>
K_last_watched_at == <<"l", "a", "s", "t", "_", "w", "a", "t", "c", "h", "e", "d", "_", "a", "t">>
K_aired_episodes  == <<"a", "i", "r", "e", "d", "_", "e", "p", "i", "s", "o", "d", "e", "s">>
K_listed_at       == <<"l", "i", "s", "t", "e", "d", "_", "a", "t">>
K_rating          == <<"r", "a", "t", "i", "n", "g">>
K_watchers        == <<"w", "a", "t", "c", "h", "e", "r", "s">>
K_number          == <<"n", "u", "m", "b", "e", "r">>
K_first_aired     == <<"f", "i", "r", "s", "t", "_", "a", "i", "r", "e", "d">>

----------------------------------------------------------------------------
(* src/src/formatters: a display text is a sequence of lines, each a format *)
(* string with the values interpolated into it.  The glyphs of the source   *)
(* that are not ASCII are written by name, as in [tv] and [star].           *)

Line(fmt, args) == [fmt |-> fmt, args |-> args]
Text(lines)     == [t |-> "text", v |-> lines]

\* the values an f-string interpolates: steps are the expressions of the loop
\* body in the order the code evaluates them, each a value or the exception it
\* raises; the line holds the values of the steps that picks names, and the
\* first step that raises ends the body
Interpolate(fmt, steps, picks) ==
    IF \A i \in 1..Len(steps) : steps[i].ok
    THEN Val(Line(fmt, [k \in 1..Len(picks) |-> steps[picks[k]].val]))
    ELSE Err(steps[CHOOSE i \in 1..Len(steps) :
                       ~steps[i].ok /\ \A j \in 1..(i - 1) : steps[j].ok].err)

\* item.get("show", {}); where it raises, the steps after it never run
ShowOf(item) == PyGet(item, K_show, EmptyResult)

\* len(seasons) if seasons else 0
SeasonsCount(seasons) == IF Truthy(seasons) THEN PyLen(seasons) ELSE Val(JNumber(0))

\* last_watched[:10] if last_watched != "N/A" else "N/A"
LastDate(last) == IF last # JString(S_NA) THEN PySlice(last, 10) ELSE Val(JString(S_NA))

\* added_at[:10] if added_at else "N/A"
AddedDate(added) == IF Truthy(added) THEN PySlice(added, 10) ELSE Val(JString(S_NA))

\* one item line of format_watched_shows
WatchedShowLine(item, idx) ==
    Interpolate("- **{title}** ({year}) -- {seasons_count} seasons - Last: {last_date}",
                << ShowOf(item),
                   PyGet(ShowOf(item).val, K_title, JString(S_Unknown)),
                   PyGet(ShowOf(item).val, K_year, JString(S_NA)),
                   SeasonsCount(PyGet(item, K_seasons, JArray(<<>>)).val),
                   LastDate(PyGet(item, K_last_watched_at, JString(S_NA)).val) >>,
                <<2, 3, 4, 5>>)

\* one item line of format_watchlist
WatchlistLine(item, idx) ==
    Interpolate("- **{title}** ({year}) -- {aired_episodes} episodes - Added: {added_date}",
                << ShowOf(item),
                   PyGet(ShowOf(item).val, K_title, JString(S_Unknown)),
                   PyGet(ShowOf(item).val, K_year, JString(S_NA)),
                   PyGet(ShowOf(item).val, K_aired_episodes, JNumber(0)),
                   AddedDate(PyGet(item, K_listed_at, JString(<<>>)).val) >>,
                <<2, 3, 4, 5>>)

\* one item line of format_search_results
SearchResultLine(item, idx) ==
    Interpolate("- **{title}** ({year}) -- [star] {rating:.1f}/10 - ID: {trakt_id}",
                << ShowOf(item),
                   PyGet(ShowOf(item).val, K_ids, EmptyResult),
                   PyGet(PyGet(ShowOf(item).val, K_ids, EmptyResult).val, K_trakt, PyNone),
                   PyGet(ShowOf(item).val, K_year, JString(S_NA)),
                   PyFormatNumber(PyGet(ShowOf(item).val, K_rating, JNumber(0)).val),
                   PyGet(ShowOf(item).val, K_title, PyNone) >>,
                <<6, 4, 5, 3>>)

\* one numbered line of format_trending_shows: enumerate(trending, 1)
TrendingShowLine(item, idx) ==
    Interpolate("{idx}. **{title}** ({year}) -- [people] {watchers:,} watchers",
                << Val(JNumber(idx)),
                   ShowOf(item),
                   PyGet(item, K_watchers, JNumber(0)),
                   PyGet(ShowOf(item).val, K_year, JString(S_NA)),
                   PyGet(ShowOf(item).val, K_title, PyNone),
                   PyFormatNumber(PyGet(item, K_watchers, JNumber(0)).val) >>,
                <<1, 5, 4, 6>>)

\* the line of one item, by the formatter that writes it
LineOf(formatter, item, idx) ==
    CASE formatter = "format_watched_shows"  -> WatchedShowLine(item, idx)
      [] formatter = "format_watchlist"      -> WatchlistLine(item, idx)
      [] formatter = "format_search_results" -> SearchResultLine(item, idx)
      [] formatter = "format_trending_shows" -> TrendingShowLine(item, idx)

\* the loop of a formatter over its items, from item i on: the header and the
\* lines so far are acc; the first item that raises ends it
RECURSIVE FormatItems(_, _, _, _)
RECURSIVE AppendLine(_, _, _, _, _)
FormatItems(formatter, items, i, acc) ==
    IF i > Len(items) THEN Return(Text(acc))
    ELSE AppendLine(formatter, items, i, acc, LineOf(formatter, items[i], i))

\* formatted.append(line) of item i, or the exception its line raised
AppendLine(formatter, items, i, acc, l) ==
    IF l.ok THEN FormatItems(formatter, items, i + 1, Append(acc, l.val))
    ELSE Raise(BuiltinError(l.err))

format_watched_shows(shows) ==
    IF ~Truthy(shows) THEN Return(Text(<<Line("[tv] No watched shows found in your history.", <<>>)>>))
    ELSE FormatItems("format_watched_shows", shows.v, 1,
                     <<Line("[tv] **Watch History** (Total: {len(shows)} shows)\n", <<JNumber(Len(shows.v))>>)>>)

format_watchlist(watchlist) ==
    IF ~Truthy(watchlist)
    THEN Return(Text(<<Line("[memo] Your watchlist is empty. Add shows you want to watch later!", <<>>)>>))
    ELSE FormatItems("format_watchlist", watchlist.v, 1,
                     <<Line("[memo] **Your Watchlist** (Total: {len(watchlist)} shows)\n",
                            <<JNumber(Len(watchlist.v))>>)>>)

format_search_results(query, results) ==
    IF ~Truthy(results)
    THEN Return(Text(<<Line("[search] No shows found matching '{query}'", <<JString(query)>>)>>))
    ELSE FormatItems("format_search_results", results.v, 1,
                     <<Line("[search] **Search Results for '{query}'** (Top {len(results)} matches)\n",
                            <<JString(query), JNumber(Len(results.v))>>)>>)

format_trending_shows(trending) ==
    IF ~Truthy(trending)
    THEN Return(Text(<<Line("[chart] No trending shows available at the moment.", <<>>)>>))
    ELSE FormatItems("format_trending_shows", trending.v, 1,
                     <<Line("[chart] **Trending Shows** (Top {len(trending)})\n",
                            <<JNumber(Len(trending.v))>>)>>)

\* "Specials" if season_num == 0 else f"Season {season_num}"
SeasonType(season_num) ==
    IF season_num = 0 THEN Line("Specials", <<>>)
    ELSE Line("Season {season_num}", <<JNumber(season_num)>>)

\* the two passes of format_show_season_episodes over the episodes before it
\* writes a line: ep.get("first_aired") of every episode, then
\* ep.get("rating", 0) > 0 of every episode; the values are the number of
\* episodes aired and the ratings above 0, whose mean the header prints
EpisodesMetadata(episodes) ==
    IF \E i \in 1..Len(episodes) : ~IsDict(episodes[i]) THEN Err("AttributeError")
    ELSE IF \E i \in 1..Len(episodes) : DictGet(episodes[i], K_rating, JNumber(0)).t # "int"
    THEN Err("TypeError")
    ELSE Val(<< JNumber(Cardinality({i \in 1..Len(episodes) :
                         Truthy(DictGet(episodes[i], K_first_aired, PyNone))})),
                JArray(SelectSeq([i \in 1..Len(episodes) |->
                                     DictGet(episodes[i], K_rating, JNumber(0))],
                                 LAMBDA x : x.v > 0)) >>)

\* _format_episode_line(episode, season_num, compact=False)
EpisodeLine(episode, season_num) ==
    Interpolate("{season_num}x{ep_num:02d} - **{title}**\n  Aired: {air_date}{rating_str}\n  Episode ID: {ep_id}",
                << Val(JNumber(season_num)),
                   PyGet(episode, K_number, JString(<<"?">>)),
                   PyGet(episode, K_ids, EmptyResult),
                   PyGet(PyGet(episode, K_ids, EmptyResult).val, K_trakt, JString(S_NA)),
                   PyGet(episode, K_title, JString(<<"U", "n", "t", "i", "t", "l", "e", "d">>)),
                   IF Truthy(PyGet(episode, K_first_aired, JString(<<>>)).val)
                   THEN PySlice(PyGet(episode, K_first_aired, JString(<<>>)).val, 10)
                   ELSE Val(JString(<<"T", "B", "A">>)),
                   PyFormatNumber(PyGet(episode, K_rating, JNumber(0)).val),
                   PyFormatNumber(PyGet(episode, K_number, JString(<<"?">>)).val) >>,
                <<1, 8, 5, 6, 7, 4>>)

format_show_season_episodes(episodes, season_num) ==
    IF ~Truthy(episodes)
    THEN Return(Text(<<Line("[tv] No episodes found for season {season_num}.",
                            <<JNumber(season_num)>>)>>))
    ELSE IF ~EpisodesMetadata(episodes.v).ok
    THEN Raise(BuiltinError(EpisodesMetadata(episodes.v).err))
    ELSE IF \E i \in 1..Len(episodes.v) : ~EpisodeLine(episodes.v[i], season_num).ok
    THEN Raise(BuiltinError(EpisodeLine(
             episodes.v[CHOOSE i \in 1..Len(episodes.v) :
                           /\ ~EpisodeLine(episodes.v[i], season_num).ok
                           /\ \A j \in 1..(i - 1) : EpisodeLine(episodes.v[j], season_num).ok],
             season_num).err))
    ELSE Return(Text(
             << Line("[tv] **{season_type} Episodes**\n", <<SeasonType(season_num)>>),
                Line("**Total:** {len(episodes)} episodes ({aired_count} aired){avg_rating}\n",
                     <<JNumber(Len(episodes.v))>> \o EpisodesMetadata(episodes.v).val) >>
             \o [i \in 1..Len(episodes.v) |-> EpisodeLine(episodes.v[i], season_num).val]))

\* data.get(outer, {}).get(inner, 0) of the confirmation messages, as steps
CountOf(data, outer, inner) ==
    << PyGet(data, outer, EmptyResult),
       PyGet(PyGet(data, outer, EmptyResult).val, inner, JNumber(0)) >>

\* a one-line text, or the exception that writing the line raised
OneLine(l) ==
    IF l.ok THEN Return(Text(<<l.val>>)) ELSE Raise(BuiltinError(l.err))

\* the confirmation message of add, remove and mark-as-watched
Confirmation(fmt, data, outer, inner) ==
    OneLine(Interpolate(fmt, CountOf(data, outer, inner), <<2>>))

----------------------------------------------------------------------------
(* The adapters.  TraktMCPServer.call_tool (src/src/server.py) routes a     *)
(* tool call by name and catches what the handler raises; the functions     *)
(* registered in src/src/tools/watchlist.py call the client directly.       *)

K_query   == <<"q", "u", "e", "r", "y">>
K_show_id == <<"s", "h", "o", "w", "_", "i", "d">>
K_episode_id == <<"e", "p", "i", "s", "o", "d", "e", "_", "i", "d">>
K_season     == <<"s", "e", "a", "s", "o", "n">>
K_limit   == <<"l", "i", "m", "i", "t">>

\* limit of get_trending_shows where the call gives none
DEFAULT_LIMIT == 10

\* the tools call_tool routes
RoutedTools ==
    {"get_watched_shows", "get_watchlist", "search_shows", "add_to_watchlist",
     "remove_from_watchlist", "get_trending_shows"}

\* what call_tool does before any await: the client method it will call with
\* its arguments, or the text it returns at once (an unknown tool; the
\* KeyError of arguments[key] for a missing argument)
Route(method, args) == [call |-> TRUE, method |-> method, args |-> args, text |-> Text(<<>>)]
Reply(text)         == [call |-> FALSE, method |-> "", args |-> NoArgs, text |-> text]

\* except clauses that have lost the one for KeyError
CallToolExceptWithoutKeyError(exc) ==
    IF IsInstance(exc.cls, "TraktAPIError")
    THEN Return(Text(<<Line("Trakt API error: {e.message}", <<exc.message>>)>>))
    ELSE IF IsInstance(exc.cls, "Exception")
    THEN Return(Text(<<Line("Unexpected error: {str(e)}", <<exc.message>>)>>))
    ELSE Raise(exc)

\* the except clauses of call_tool, in source order
CallToolExcept(exc) ==
    IF IsInstance(exc.cls, "KeyError")
    THEN Return(Text(<<Line("Missing required parameter: {str(e)}", <<exc.message>>)>>))
    ELSE IF IsInstance(exc.cls, "TraktAPIError")
    THEN Return(Text(<<Line("Trakt API error: {e.message}", <<exc.message>>)>>))
    ELSE IF IsInstance(exc.cls, "Exception")
    THEN Return(Text(<<Line("Unexpected error: {str(e)}", <<exc.message>>)>>))
    ELSE Raise(exc)

\* arguments[key] for a key the arguments lack: KeyError(key), caught at once
MissingParameter(key) ==
    Reply(CallToolExcept(Exc("KeyError", None, Msg("'{key}'", None, key))).value)

CallToolRoute(name, arguments) ==
    CASE name = "get_watched_shows" -> Route("get_watched_shows", NoArgs)
      [] name = "get_watchlist"     -> Route("get_watchlist", NoArgs)
      [] name = "search_shows" ->
           IF HasKey(arguments, K_query)
           THEN Route("search_shows",
                      Args(<<>>, <<>>, DictGet(arguments, K_query, PyNone).v, None, None))
           ELSE MissingParameter(K_query)
      [] name = "add_to_watchlist" ->
           IF HasKey(arguments, K_show_id)
           THEN Route("add_to_watchlist",
                      Args(DictGet(arguments, K_show_id, PyNone).v, <<>>, <<>>, None, None))
           ELSE MissingParameter(K_show_id)
      [] name = "remove_from_watchlist" ->
           IF HasKey(arguments, K_show_id)
           THEN Route("remove_from_watchlist",
                      Args(DictGet(arguments, K_show_id, PyNone).v, <<>>, <<>>, None, None))
           ELSE MissingParameter(K_show_id)
      [] name = "get_trending_shows" ->
           Route("get_trending_shows",
                 Args(<<>>, <<>>, <<>>, DictGet(arguments, K_limit, JNumber(DEFAULT_LIMIT)).v, None))
      [] OTHER -> Reply(Text(<<Line("Unknown tool: {name}", <<[t |-> "name", v |-> name]>>)>>))

\* the part of a handler after the client method returned: the display text,
\* or the exception that the client or the formatting raised
HandlerFinish(method, args, r) ==
    IF r.kind = "raise" THEN r
    ELSE CASE method = "get_watched_shows" -> format_watched_shows(r.value)
           [] method = "get_watchlist"     -> format_watchlist(r.value)
           [] method = "search_shows"      -> format_search_results(args.query, r.value)
           [] method = "get_trending_shows" -> format_trending_shows(r.value)
           [] method = "get_show_season_episodes" ->
                format_show_season_episodes(r.value, args.season)
           [] method = "add_to_watchlist" ->
                Confirmation("[ok] Successfully added {added} show(s) to your watchlist.",
                             r.value, K_added, K_shows)
           [] method = "remove_from_watchlist" ->
                Confirmation("[ok] Successfully removed {deleted} show(s) from your watchlist.",
                             r.value, K_deleted, K_shows)
           [] method = "mark_episode_as_watched" ->
                Confirmation("[ok] Successfully marked {added} episode(s) as watched.",
                             r.value, K_added, K_episodes)

\* the try block of call_tool around a handler that finished with h
CallToolTry(h) == IF h.kind = "raise" THEN CallToolExcept(h.exc) ELSE h

\* call_tool after the client method finished with r
CallToolFinish(method, args, r) == CallToolTry(HandlerFinish(method, args, r))

\* a registered tool function after the client method finished with r: it has
\* no try block
ToolFinish(method, args, r) == HandlerFinish(method, args, r)

\* what leaves the entry point of the call c once its client method finished with r
EntryFinish(c, r) ==
    CASE c.layer = "client"    -> r
      [] c.layer = "call_tool" -> CallToolFinish(c.method, c.args, r)
      [] c.layer = "tool"      -> ToolFinish(c.method, c.args, r)

----------------------------------------------------------------------------
(* The process: its configuration (src/src/config/__init__.py), the client  *)
(* object it constructs (TraktAPIClient.__init__) and the tool invocations  *)
(* that share that client.                                                  *)

\* number of tool invocations followed one by one
NumTasks == 2
Tasks == 1..NumTasks

\* os.getenv(name): None for a variable that is not set, or its text
Unset    == PyNone
EmptyStr == JString(<<>>)
SetStr   == JString(<<"v">>)
EnvValues == {Unset, EmptyStr, SetStr}

\* the environment after load_dotenv(): the attributes of AppConfig
Environment(client_id, access_token, api_version) ==
    [TRAKT_CLIENT_ID |-> client_id, TRAKT_ACCESS_TOKEN |-> access_token,
     TRAKT_API_VERSION |-> api_version]

FullEnv == Environment(SetStr, SetStr, SetStr)

Environments ==
    {Environment(a, b, c) : a \in EnvValues, b \in EnvValues, c \in EnvValues}

\* httpx.AsyncClient(headers=...): its state and the three default headers
\* that TraktAPIClient.__init__ reads from AppConfig
AsyncClient(state, e) ==
    [state |-> state,
     headers |-> [trakt_api_version |-> e.TRAKT_API_VERSION,
                  trakt_api_key     |-> e.TRAKT_CLIENT_ID,
                  authorization     |-> e.TRAKT_ACCESS_TOKEN]]

\* no client has been constructed
NoClient == AsyncClient("none", Environment(Unset, Unset, Unset))

\* one tool invocation: its position, tenacity's attempt number, the requests
\* it issued, the time its last attempt waited for a connection, and what its
\* last attempt produced (what left the call, once the call is done)
Task(position, n, issued, waited, ended) ==
    [pc |-> position, attempt_number |-> n, attempts |-> issued, waited |-> waited,
     outcome |-> ended]

IdleTask == Task("idle", 1, 0, 0, NoResult)

----------------------------------------------------------------------------
(* The calls of the model *)

ValidIds   == {<<"1", "2", "3">>, <<"7">>}
InvalidIds == {<<"1", "2", "a">>}
Queries    == {<<"D", "a", "r", "k">>, <<>>}
Limits     == {5, 10, 50}
Seasons    == {0, 1}

\* direct calls of the client's methods
ClientCalls ==
    {<<m, NoArgs>> : m \in {"_make_request", "get_watched_shows", "get_watchlist"}}
    \cup {<<m, Args(id, <<>>, <<>>, None, None)>> :
             m \in {"add_to_watchlist", "remove_from_watchlist", "get_show_all_episodes"},
             id \in ValidIds \cup InvalidIds}
    \cup {<<"mark_episode_as_watched", Args(<<>>, id, <<>>, None, None)>> :
             id \in ValidIds \cup InvalidIds}
    \cup {<<"search_shows", Args(<<>>, <<>>, q, None, None)>> : q \in Queries}
    \cup {<<"get_trending_shows", Args(<<>>, <<>>, <<>>, l, None)>> : l \in Limits}
    \cup {<<"get_show_season_episodes", Args(id, <<>>, <<>>, None, n)>> :
             id \in ValidIds, n \in Seasons}

\* the arguments dicts that reach call_tool, which validates none of them
ArgumentDicts ==
    {JObject(<<>>)}
    \cup {JObject(<< <<K_query, JString(q)>> >>) : q \in Queries}
    \cup {JObject(<< <<K_query, JString(<<"D", "a", "r", "k">>)>>, <<K_limit, JNumber(5)>> >>)}
    \cup {JObject(<< <<K_show_id, JString(id)>> >>) : id \in ValidIds \cup InvalidIds}
    \cup {JObject(<< <<K_limit, JNumber(l)>> >>) : l \in Limits}
    \cup {JObject(<< <<K_episode_id, JString(<<"7">>)>> >>)}

\* the nine tools of the tool surface: one per method of the client
ToolNames == ListMethods \cup DictMethods

\* arguments that satisfy the declared schema of the tool: the required keys
\* are present and an identifier matches ^[0-9]+$
ValidArguments(name, arguments) ==
    /\ name \in {"add_to_watchlist", "remove_from_watchlist", "get_show_all_episodes",
                 "get_show_season_episodes"} =>
          /\ HasKey(arguments, K_show_id)
          /\ DictGet(arguments, K_show_id, PyNone).v \in ValidIds
    /\ name = "get_show_season_episodes" => HasKey(arguments, K_season)
    /\ name = "mark_episode_as_watched" =>
          /\ HasKey(arguments, K_episode_id)
          /\ DictGet(arguments, K_episode_id, PyNone).v \in ValidIds
    /\ name = "search_shows" => HasKey(arguments, K_query)

\* calls of the registered tool functions: their arguments passed the
\* declared pattern ^[0-9]+$
RegisteredCalls ==
    {<<"get_watchlist", NoArgs>>}
    \cup {<<m, Args(id, <<>>, <<>>, None, None)>> :
             m \in {"add_to_watchlist", "remove_from_watchlist"}, id \in ValidIds}
    \cup {<<"mark_episode_as_watched", Args(<<>>, id, <<>>, None, None)>> : id \in ValidIds}

Call(layer, name, arguments, method, args, request) ==
    [layer |-> layer, name |-> name, arguments |-> arguments,
     method |-> method, args |-> args, request |-> request]

NoCall == Call("", "", EmptyResult, "", NoArgs, NoRequest)

----------------------------------------------------------------------------
(* State machine *)

Init ==
    /\ pc = "idle"
    /\ call = NoCall
    /\ attempt_number = 1
    /\ attempts = 0
    /\ answered = 0
    /\ sleeps = <<>>
    /\ response = NoResponse
    /\ json_calls = 0
    /\ log = NoLog
    /\ outcome = NoResult
    /\ result = NoResult
    /\ env = FullEnv
    /\ argv = "stdio"
    /\ proc = "serving"
    /\ error = NoExc
    /\ http_client = AsyncClient("opened", FullEnv)
    /\ closes = 0
    /\ tasks = [t \in Tasks |-> IdleTask]
    /\ conns = 0

\* the call enters a client method, which builds its request and awaits
\* _make_request, or raises before any request
Enter(c, built) ==
    /\ call' = [c EXCEPT !.request = built.req]
    /\ IF built.ok
       THEN /\ pc' = "request"
            /\ result' = NoResult
       ELSE /\ pc' = "done"
            /\ result' = EntryFinish(c, Raise(built.exc))
    /\ UNCHANGED <<attempt_number, attempts, answered, sleeps, response,
                   json_calls, log, outcome>>
    /\ UNCHANGED serverVars

\* a caller invokes a method of the client
CallClient(name, args) ==
    /\ pc = "idle"
    /\ Enter(Call("client", name, EmptyResult, name, args, NoRequest), BuildRequest(name, args))

\* the host invokes TraktMCPServer.call_tool(name, arguments)
CallTool(name, arguments) ==
    /\ pc = "idle"
    /\ LET route == CallToolRoute(name, arguments)
       IN  IF route.call
           THEN Enter(Call("call_tool", name, arguments, route.method, route.args, NoRequest),
                      BuildRequest(route.method, route.args))
           ELSE /\ call' = Call("call_tool", name, arguments, "", NoArgs, NoRequest)
                /\ pc' = "done"
                /\ result' = Return(route.text)
                /\ UNCHANGED <<attempt_number, attempts, answered, sleeps, response,
                               json_calls, log, outcome>>
                /\ UNCHANGED serverVars

\* the host invokes a tool function registered by register_watchlist_tools
CallRegisteredTool(name, args) ==
    /\ pc = "idle"
    /\ Enter(Call("tool", name, EmptyResult, name, args, NoRequest), BuildRequest(name, args))

\* one attempt of _make_request: the request is issued, r comes back, the body
\* classifies it and the retry decorator either schedules another attempt or
\* lets the outcome leave; the rest of the method and of the adapter follows
Attempt(r) ==
    /\ pc = "request"
    /\ LET out == MakeRequestBody(r)
       IN  /\ attempts' = attempts + 1
           /\ answered' = IF r.kind = "response" THEN answered + 1 ELSE answered
           /\ response' = r
           /\ json_calls' = json_calls + out.json_calls
           /\ log' = out.log
           /\ IF RetryAction(attempt_number, out) = "sleep"
              THEN /\ pc' = "backoff"
                   /\ sleeps' = Append(sleeps, WaitExponential(attempt_number))
                   /\ UNCHANGED <<outcome, result>>
              ELSE /\ pc' = "done"
                   /\ outcome' = RetryFinish(out)
                   /\ result' = EntryFinish(call, ClientReturn(call.method, outcome'))
                   /\ UNCHANGED sleeps
    /\ UNCHANGED <<call, attempt_number>>
    /\ UNCHANGED serverVars

\* the back-off sleep is over: the next attempt begins
Wake ==
    /\ pc = "backoff"
    /\ pc' = "request"
    /\ attempt_number' = attempt_number + 1
    /\ UNCHANGED <<call, attempts, answered, sleeps, response, json_calls, log,
                   outcome, result>>
    /\ UNCHANGED serverVars

\* the caller has taken the result: the next call can begin
Complete ==
    /\ pc = "done"
    /\ pc' = "idle"
    /\ call' = NoCall
    /\ attempt_number' = 1
    /\ attempts' = 0
    /\ answered' = 0
    /\ sleeps' = <<>>
    /\ response' = NoResponse
    /\ json_calls' = 0
    /\ log' = NoLog
    /\ outcome' = NoResult
    /\ result' = NoResult
    /\ UNCHANGED serverVars

Next ==
    \/ \E c \in ClientCalls : CallClient(c[1], c[2])
    \/ \E name \in ToolNames, arguments \in ArgumentDicts : CallTool(name, arguments)
    \/ \E c \in RegisteredCalls : CallRegisteredTool(c[1], c[2])
    \/ \E r \in Responses : Attempt(r)
    \/ Wake
    \/ Complete

Spec == Init /\ [][Next]_vars

----------------------------------------------------------------------------
(* The life of the process (src/main.py, TraktMCPServer.run): the modules   *)
(* are imported, which validates the configuration; main constructs the     *)
(* server and its client and runs the session; run closes the client when   *)
(* the session is over.                                                     *)

\* the names that validate_config appends to missing, in its order
MissingSettings(e) ==
    (IF ~Truthy(e.TRAKT_CLIENT_ID) THEN <<"TRAKT_CLIENT_ID">> ELSE <<>>)
    \o (IF ~Truthy(e.TRAKT_ACCESS_TOKEN) THEN <<"TRAKT_ACCESS_TOKEN">> ELSE <<>>)
    \o (IF ~Truthy(e.TRAKT_API_VERSION) THEN <<"TRAKT_API_VERSION">> ELSE <<>>)

\* a configuration check that forgets the API version
ValidateConfigWithoutVersion(e) ==
    ~Truthy(e.TRAKT_CLIENT_ID) \/ ~Truthy(e.TRAKT_ACCESS_TOKEN)

\* validate_config raises: if missing
ValidateConfigRaises(e) == MissingSettings(e) # <<>>

\* what can end the session from outside: the host cancels it, the user
\* interrupts it, or the transport fails
SessionFaults == {"CancelledError", "KeyboardInterrupt", "Exception"}

LifecycleInit ==
    /\ Init!1 /\ Init!2 /\ Init!3 /\ Init!4 /\ Init!5 /\ Init!6
    /\ Init!7 /\ Init!8 /\ Init!9 /\ Init!10 /\ Init!11
    /\ env \in Environments
    /\ argv \in {"stdio", "http"}
    /\ proc = "import"
    /\ error = NoExc
    /\ http_client = NoClient
    /\ closes = 0
    /\ tasks = [t \in Tasks |-> IdleTask]
    /\ conns = 0

\* main.py imports src.server, which imports src.api, which imports
\* src.config: the module runs validate_config()
ImportConfig ==
    /\ proc = "import"
    /\ IF ValidateConfigRaises(env)
       THEN /\ proc' = "exit"
            /\ error' = BuiltinError("ValueError")
       ELSE /\ proc' = "main"
            /\ UNCHANGED error
    /\ UNCHANGED <<env, argv, http_client, closes, tasks, conns>>
    /\ UNCHANGED callVars

\* main with --http: run_http only logs
RunHttp ==
    /\ proc = "main"
    /\ argv = "http"
    /\ proc' = "exit"
    /\ UNCHANGED <<env, argv, error, http_client, closes, tasks, conns>>
    /\ UNCHANGED callVars

\* run_stdio: TraktMCPServer() constructs the TraktAPIClient, whose httpx
\* client takes its default headers from AppConfig
Construct ==
    /\ proc = "main"
    /\ argv = "stdio"
    /\ http_client' = AsyncClient("unopened", env)
    /\ proc' = "constructed"
    /\ UNCHANGED <<env, argv, error, closes, tasks, conns>>
    /\ UNCHANGED callVars

\* run enters its try block and opens the stdio transport, which may fail
RunStart ==
    /\ proc = "constructed"
    /\ \/ /\ proc' = "serving"
          /\ UNCHANGED error
       \/ /\ proc' = "finally"
          /\ error' = BuiltinError("Exception")
    /\ UNCHANGED <<env, argv, http_client, closes, tasks, conns>>
    /\ UNCHANGED callVars

\* the session hands a tool call to call_tool in a task of its own
ToolCallStart(t) ==
    /\ proc = "serving"
    /\ tasks[t].pc = "idle"
    /\ tasks' = [tasks EXCEPT ![t] = Task("request", 1, 0, 0, NoResult)]
    /\ UNCHANGED <<env, argv, proc, error, http_client, closes, conns>>
    /\ UNCHANGED callVars

\* call_tool returns its text
ToolCallEnd(t) ==
    /\ proc = "serving"
    /\ tasks[t].pc = "request"
    /\ tasks' = [tasks EXCEPT ![t] = IdleTask]
    /\ UNCHANGED <<env, argv, proc, error, http_client, closes, conns>>
    /\ UNCHANGED callVars

\* the input stream ends: server.run returns once the tool calls it started
\* are over, and run reaches its finally clause
SessionEnd ==
    /\ proc = "serving"
    /\ \A t \in Tasks : tasks[t].pc = "idle"
    /\ proc' = "finally"
    /\ UNCHANGED <<env, argv, error, http_client, closes, tasks, conns>>
    /\ UNCHANGED callVars

\* a session that would leave run without passing through its finally clause
SessionAbortWithoutFinally(fault) ==
    /\ proc = "serving"
    /\ tasks' = [t \in Tasks |-> IdleTask]
    /\ error' = BuiltinError(fault)
    /\ proc' = "exit"
    /\ UNCHANGED <<env, argv, http_client, closes, conns>>
    /\ UNCHANGED callVars

\* an exception ends server.run: the tool calls still running are cancelled
\* with their task group, and run reaches its finally clause
SessionAbort(fault) ==
    /\ proc = "serving"
    /\ tasks' = [t \in Tasks |-> IdleTask]
    /\ error' = BuiltinError(fault)
    /\ proc' = "finally"
    /\ UNCHANGED <<env, argv, http_client, closes, conns>>
    /\ UNCHANGED callVars

\* finally: await self.cleanup(), which awaits api_client.close(); the
\* exception that ended the session, if any, then leaves run
Cleanup ==
    /\ proc = "finally"
    /\ closes' = closes + 1
    /\ http_client' = [http_client EXCEPT !.state = "closed"]
    /\ proc' = "exit"
    /\ UNCHANGED <<env, argv, error, tasks, conns>>
    /\ UNCHANGED callVars

LifecycleNext ==
    \/ ImportConfig
    \/ RunHttp
    \/ Construct
    \/ RunStart
    \/ \E t \in Tasks : ToolCallStart(t)
    \/ \E t \in Tasks : ToolCallEnd(t)
    \/ SessionEnd
    \/ \E fault \in SessionFaults : SessionAbort(fault)
    \/ Cleanup

LifecycleSpec == LifecycleInit /\ [][LifecycleNext]_vars

----------------------------------------------------------------------------
(* The client shared by concurrent tool invocations.  Each invocation runs  *)
(* in a task of its own and is suspended at its await points: the wait for  *)
(* a connection of the pool, the request in flight, and the back-off sleep. *)
(* A request in flight occupies one connection (the case in which the cap   *)
(* of the pool is reached); besides the tasks followed one by one, other    *)
(* invocations hold the remaining connections in use.  A task sees of them  *)
(* only whether a connection is free, so they are followed in bursts that   *)
(* bring the pool close to its cap, and not one request at a time.          *)

\* httpx.Limits(max_connections=100) and httpx.Timeout(pool=5.0)
MAX_CONNECTIONS == 100
POOL_TIMEOUT    == 5

\* most invocations of close that the model follows
MaxCloses == 2

\* what a request in flight can come back with
PoolResponses ==
    { TransportFault("ConnectError"), HttpResponse(200, <<"{", "}">>), HttpResponse(401, <<>>) }

\* connections held by the tasks followed one by one
Held == Cardinality({t \in Tasks : tasks[t].pc = "request"})

ClientInit ==
    /\ Init!1 /\ Init!2 /\ Init!3 /\ Init!4 /\ Init!5 /\ Init!6
    /\ Init!7 /\ Init!8 /\ Init!9 /\ Init!10 /\ Init!11
    /\ env = FullEnv
    /\ argv = "stdio"
    /\ proc = "serving"
    /\ error = NoExc
    /\ http_client = AsyncClient("unopened", FullEnv)
    /\ closes = 0
    /\ tasks = [t \in Tasks |-> IdleTask]
    /\ conns = 0

\* the retry decorator after the body of an attempt of task t produced out:
\* the task sleeps before another attempt, or the call is over
\* a decorator that starts the next attempt at once, without the back-off sleep
AfterAttemptWithoutBackoff(t, issued, waited, out) ==
    tasks' = [tasks EXCEPT ![t] =
                 IF RetryAction(tasks[t].attempt_number, out) = "sleep"
                 THEN Task("request", tasks[t].attempt_number + 1, issued + 1, 0, NoResult)
                 ELSE Task("done", tasks[t].attempt_number, issued, waited, RetryFinish(out))]

AfterAttempt(t, issued, waited, out) ==
    tasks' = [tasks EXCEPT ![t] =
                 Task(IF RetryAction(tasks[t].attempt_number, out) = "sleep"
                      THEN "backoff" ELSE "done",
                      tasks[t].attempt_number, issued, waited, RetryFinish(out))]

\* an attempt for which the refusal of a closed client counts as a network
\* error, to be retried
StartAttemptRetryingClosed(t, n) ==
    IF http_client.state = "closed"
    THEN /\ tasks' = [tasks EXCEPT ![t] =
                         Task(IF n < MAX_ATTEMPTS THEN "backoff" ELSE "done", n,
                              tasks[t].attempts, 0, Raise(NetworkError("{e}")))]
         /\ UNCHANGED <<http_client, conns>>
    ELSE /\ http_client' = [http_client EXCEPT !.state = "opened"]
         /\ IF conns < MAX_CONNECTIONS
            THEN /\ conns' = conns + 1
                 /\ tasks' = [tasks EXCEPT ![t] =
                                 Task("request", n, tasks[t].attempts + 1, 0, NoResult)]
            ELSE /\ tasks' = [tasks EXCEPT ![t] =
                                 Task("acquire", n, tasks[t].attempts, 0, NoResult)]
                 /\ UNCHANGED conns

\* an attempt that takes a connection whether or not one is left
StartAttemptIgnoringCap(t, n) ==
    /\ http_client' = [http_client EXCEPT !.state = "opened"]
    /\ conns' = conns + 1
    /\ tasks' = [tasks EXCEPT ![t] = Task("request", n, tasks[t].attempts + 1, 0, NoResult)]

\* attempt n of task t begins: a closed client refuses to send (RuntimeError,
\* which no except clause of _make_request catches); otherwise the request
\* takes a connection, or waits for one when the cap is reached
StartAttempt(t, n) ==
    IF http_client.state = "closed"
    THEN /\ tasks' = [tasks EXCEPT ![t] =
                         Task("done", n, tasks[t].attempts, 0,
                              RetryFinish(MakeRequestBody(TransportFault("RuntimeError"))))]
         /\ UNCHANGED <<http_client, conns>>
    ELSE /\ http_client' = [http_client EXCEPT !.state = "opened"]
         /\ IF conns < MAX_CONNECTIONS
            THEN /\ conns' = conns + 1
                 /\ tasks' = [tasks EXCEPT ![t] =
                                 Task("request", n, tasks[t].attempts + 1, 0, NoResult)]
            ELSE /\ tasks' = [tasks EXCEPT ![t] =
                                 Task("acquire", n, tasks[t].attempts, 0, NoResult)]
                 /\ UNCHANGED conns

\* a call that takes up the attempt counter where the other calls have left it
TaskCallSharedCounter(t) ==
    /\ tasks[t].pc = "idle"
    /\ StartAttempt(t, IF \E u \in Tasks : tasks[u].attempt_number = MAX_ATTEMPTS
                       THEN MAX_ATTEMPTS
                       ELSE IF \E u \in Tasks : tasks[u].attempt_number = 2 THEN 2 ELSE 1)
    /\ UNCHANGED <<env, argv, proc, error, closes>>
    /\ UNCHANGED callVars

\* a tool invocation calls the client: the first attempt of _make_request
TaskCall(t) ==
    /\ tasks[t].pc = "idle"
    /\ StartAttempt(t, 1)
    /\ UNCHANGED <<env, argv, proc, error, closes>>
    /\ UNCHANGED callVars

\* a connection is free: the waiting request takes it
Acquire(t) ==
    /\ tasks[t].pc = "acquire"
    /\ conns < MAX_CONNECTIONS
    /\ conns' = conns + 1
    /\ tasks' = [tasks EXCEPT ![t].pc = "request", ![t].attempts = @ + 1]
    /\ UNCHANGED <<env, argv, proc, error, http_client, closes>>
    /\ UNCHANGED callVars

\* no connection came free within the pool timeout: httpx.PoolTimeout
PoolTimeout(t) ==
    /\ tasks[t].pc = "acquire"
    /\ conns = MAX_CONNECTIONS
    /\ AfterAttempt(t, tasks[t].attempts, POOL_TIMEOUT,
                    MakeRequestBody(TransportFault("PoolTimeout")))
    /\ UNCHANGED <<env, argv, proc, error, http_client, closes, conns>>
    /\ UNCHANGED callVars

\* the request in flight comes back with r and gives its connection back
Respond(t, r) ==
    /\ tasks[t].pc = "request"
    /\ conns' = conns - 1
    /\ AfterAttempt(t, tasks[t].attempts, 0, MakeRequestBody(r))
    /\ UNCHANGED <<env, argv, proc, error, http_client, closes>>
    /\ UNCHANGED callVars

\* the back-off sleep is over: the next attempt begins
WakeTask(t) ==
    /\ tasks[t].pc = "backoff"
    /\ StartAttempt(t, tasks[t].attempt_number + 1)
    /\ UNCHANGED <<env, argv, proc, error, closes>>
    /\ UNCHANGED callVars

\* the host cancels the task at its await point.  Inside an attempt the
\* CancelledError passes the except clauses of _make_request and reaches the
\* retry decorator, which catches BaseException and applies its condition;
\* the connection of a request in flight is given back.  In the back-off
\* sleep the CancelledError leaves the decorator directly.
CancelTask(t) ==
    /\ tasks[t].pc \in {"acquire", "request", "backoff"}
    /\ IF tasks[t].pc = "backoff"
       THEN tasks' = [tasks EXCEPT ![t] =
                         Task("done", tasks[t].attempt_number, tasks[t].attempts, 0,
                              Raise(BuiltinError("CancelledError")))]
       ELSE AfterAttempt(t, tasks[t].attempts, 0,
                         MakeRequestBody(TransportFault("CancelledError")))
    /\ conns' = IF tasks[t].pc = "request" THEN conns - 1 ELSE conns
    /\ UNCHANGED <<env, argv, proc, error, http_client, closes>>
    /\ UNCHANGED callVars

\* the invocation is over: its task ends and another invocation can begin
TaskEnd(t) ==
    /\ tasks[t].pc = "done"
    /\ tasks' = [tasks EXCEPT ![t] = IdleTask]
    /\ UNCHANGED <<env, argv, proc, error, http_client, closes, conns>>
    /\ UNCHANGED callVars

\* other invocations issue requests, each taking a connection, until only
\* free connections are left
OtherAcquire(free) ==
    /\ http_client.state # "closed"
    /\ conns < MAX_CONNECTIONS - free
    /\ conns' = MAX_CONNECTIONS - free
    /\ http_client' = [http_client EXCEPT !.state = "opened"]
    /\ UNCHANGED <<env, argv, proc, error, closes, tasks>>
    /\ UNCHANGED callVars

\* the requests of the other invocations come back: all of them, or one of
\* them while the pool is close to its cap
OtherRelease(all) ==
    /\ conns > Held
    /\ conns' = IF all THEN Held ELSE conns - 1
    /\ conns' >= MAX_CONNECTIONS - NumTasks - 1 \/ conns' <= Held
    /\ UNCHANGED <<env, argv, proc, error, http_client, closes, tasks>>
    /\ UNCHANGED callVars

\* a close that opens the client again when it is already closed
CloseReopening ==
    /\ closes < MaxCloses
    /\ conns = 0
    /\ \A t \in Tasks : tasks[t].pc \notin {"acquire", "request"}
    /\ closes' = closes + 1
    /\ http_client' = [http_client EXCEPT
                          !.state = IF @ = "closed" THEN "opened" ELSE "closed"]
    /\ UNCHANGED <<env, argv, proc, error, tasks, conns>>
    /\ UNCHANGED callVars

\* TraktAPIClient.close: await self.http_client.aclose(), which closes the
\* client and its pool unless the client is closed already; called when no
\* request is in flight
Close ==
    /\ closes < MaxCloses
    /\ conns = 0
    /\ \A t \in Tasks : tasks[t].pc \notin {"acquire", "request"}
    /\ closes' = closes + 1
    /\ http_client' = [http_client EXCEPT !.state = "closed"]
    /\ UNCHANGED <<env, argv, proc, error, tasks, conns>>
    /\ UNCHANGED callVars

ClientNext ==
    \/ \E t \in Tasks : TaskCall(t)
    \/ \E t \in Tasks : Acquire(t)
    \/ \E t \in Tasks : PoolTimeout(t)
    \/ \E t \in Tasks, r \in PoolResponses : Respond(t, r)
    \/ \E t \in Tasks : WakeTask(t)
    \/ \E t \in Tasks : CancelTask(t)
    \/ \E t \in Tasks : TaskEnd(t)
    \/ \E free \in 0..NumTasks : OtherAcquire(free)
    \/ \E all \in BOOLEAN : OtherRelease(all)
    \/ Close

ClientSpec == ClientInit /\ [][ClientNext]_vars

----------------------------------------------------------------------------
(* The formatters on their own: a registered tool function whose client     *)
(* method has returned a list of items formats it (tools/discovery.py:      *)
(* return format_trending_shows(data), return                               *)
(* format_show_season_episodes(data, season)).                              *)

\* longest list of items formatted
MaxItems == 3

\* items of the lists the remote API answers with: a trending entry, an
\* episode, an entry without any field and an entry whose show is null
Items ==
    { JObject(<< <<K_show, JObject(<< <<K_title, JString(<<"D">>)>>,
                                      <<K_year, JNumber(2017)>> >>)>>,
                 <<K_watchers, JNumber(1234)>> >>),
      JObject(<< <<K_number, JNumber(1)>>,
                 <<K_title, JString(<<"P">>)>>,
                 <<K_first_aired, JString(<<"2", "0", "1", "7">>)>>,
                 <<K_rating, JNumber(8)>>,
                 <<K_ids, JObject(<< <<K_trakt, JNumber(7)>> >>)>> >>),
      EmptyResult,
      JObject(<< <<K_show, PyNone>> >>) }

ItemLists == UNION {[1..n -> Items] : n \in 0..MaxItems}

\* the tool invocations whose result is formatted
FormatCalls ==
    {<<"get_trending_shows", Args(<<>>, <<>>, <<>>, DEFAULT_LIMIT, None)>>}
    \cup {<<"get_show_season_episodes", Args(<<"1", "2", "3">>, <<>>, <<>>, None, n)>> :
             n \in Seasons}

FormatInit ==
    /\ pc = "format"
    /\ \E c \in FormatCalls :
          call = Call("tool", c[1], EmptyResult, c[1], c[2], BuildRequest(c[1], c[2]).req)
    /\ Init!3 /\ Init!4 /\ Init!5 /\ Init!6 /\ Init!7 /\ Init!8 /\ Init!9
    /\ \E items \in ItemLists : outcome = Return(JArray(items))
    /\ Init!11
    /\ Init!12 /\ Init!13 /\ Init!14 /\ Init!15 /\ Init!16 /\ Init!17 /\ Init!18 /\ Init!19

\* the rest of the tool function after its await: the formatter is applied to
\* what the client method returned
FormatResult ==
    /\ pc = "format"
    /\ pc' = "done"
    /\ result' = EntryFinish(call, ClientReturn(call.method, outcome))
    /\ UNCHANGED <<call, attempt_number, attempts, answered, sleeps, response,
                   json_calls, log, outcome>>
    /\ UNCHANGED serverVars

FormatSpec == FormatInit /\ [][FormatResult]_vars

----------------------------------------------------------------------------
(* Properties *)

\* the call is over and its last attempt got an HTTP response with this status
AnsweredWith(status) ==
    response.kind = "response" /\ response.status_code = status

\* C1: a call all of whose attempts ended in a transport fault made exactly 3
\* attempts and fails with the NetworkError that its last attempt raised, not
\* with an error of the retry wrapper; until then it never made more than 3.
C1_NetworkFaultsExhaustRetries ==
    /\ attempts <= 3
    /\ (pc = "done" /\ attempts > 0 /\ answered = 0) =>
          /\ attempts = 3
          /\ outcome.kind = "raise"
          /\ outcome.exc.cls = "NetworkError"
          /\ response.kind = "fault"
          /\ outcome.exc = MakeRequestBody(response).exc
          /\ result.kind = "raise" => result.exc = outcome.exc

C1_Witness ==
    /\ pc = "done"
    /\ attempts = 3
    /\ answered = 0
    /\ outcome.kind = "raise"
    /\ outcome.exc.cls = "NetworkError"

\* C2: the delay slept between the 1st and the 2nd attempt is 2 seconds and
\* the delay between the 2nd and the 3rd attempt is 4 seconds.
C2_BackoffDelays ==
    /\ Len(sleeps) >= 1 => sleeps[1] = 2
    /\ Len(sleeps) >= 2 => sleeps[2] = 4

\* C3: when the 2nd or 3rd attempt of a call receives a 2xx response, no
\* further attempt is made and the call returns that attempt's parsed result.
C3_RetriedSuccessIsReturned ==
    (attempts >= 2 /\ response.kind = "response" /\ ~RaisesForStatus(response.status_code)) =>
        /\ pc = "done"
        /\ outcome.kind = "return"
        /\ outcome.value = MakeRequestBody(response).value

C7_OtherStatusTruncatedBody ==
    (/\ response.kind = "response"
     /\ RaisesForStatus(response.status_code)
     /\ response.status_code \notin {401, 404, 429}) =>
        /\ pc = "done"
        /\ outcome.kind = "raise"
        /\ outcome.exc.cls = "TraktAPIError"
        /\ outcome.exc.status_code = response.status_code
        /\ answered = 1
        /\ outcome.exc.message.text = Prefix(response.content, 200)

\* C8: every exception that leaves _make_request or a method of the client
\* is of a class of the taxonomy.
C8_OnlyTaxonomyErrorsLeaveClient ==
    /\ (pc = "done" /\ outcome.kind = "raise") => outcome.exc.cls \in Taxonomy
    /\ (pc = "done" /\ call.layer = "client" /\ result.kind = "raise") =>
          result.exc.cls \in Taxonomy

\* C9: every tool invocation, through call_tool or through a registered tool
\* function, ends by returning a text; no exception leaves the handler.
C9_ToolCallReturnsText ==
    (pc = "done" /\ call.layer \in {"call_tool", "tool"}) =>
        /\ result.kind = "return"
        /\ result.value.t = "text"

\* C10: a 2xx response with status 204 or an empty body makes the call return
\* the empty result without any call of response.json(); every other 2xx
\* response makes it return the parsed JSON body.
C10_EmptyOrParsedResult ==
    (response.kind = "response" /\ ~RaisesForStatus(response.status_code)) =>
        /\ pc = "done"
        /\ outcome.kind = "return"
        /\ IF response.status_code = 204 \/ response.content = <<>>
           THEN outcome.value = EmptyResult /\ json_calls = 0
           ELSE JsonLoads(response.content).ok /\ outcome.value = JsonLoads(response.content).val

\* C11: a per-operation method that _make_request gave a result returns and
\* does not raise: a list-returning method returns the result when it is a
\* list and [] otherwise, a dict-returning method returns the result when it
\* is a dict and {} otherwise.
C11_ShapeCoercion ==
    (pc = "done" /\ call.layer = "client" /\ outcome.kind = "return") =>
        /\ result.kind = "return"
        /\ call.method \in ListMethods =>
              result.value = IF outcome.value.t = "list" THEN outcome.value ELSE JArray(<<>>)
        /\ call.method \in DictMethods =>
              result.value = IF outcome.value.t = "dict" THEN outcome.value ELSE JObject(<<>>)

\* a list-returning method was given a non-empty object and returned []
C11_Witness ==
    /\ pc = "done"
    /\ call.layer = "client"
    /\ call.method = "get_watchlist"
    /\ outcome.kind = "return"
    /\ outcome.value.t = "dict"
    /\ outcome.value.v # <<>>
    /\ result = Return(JArray(<<>>))

\* C12: once run() has ended, normally or through an exception, close has
\* been invoked exactly once; it is never invoked more than once, and never
\* while the session is serving or a tool call is running.
C12_ClosedExactlyOnceAfterSession ==
    /\ closes <= 1
    /\ (proc = "exit" /\ http_client.state # "none") => closes = 1
    /\ proc \in {"constructed", "serving", "finally"} => closes = 0
    /\ closes > 0 => \A t \in Tasks : tasks[t].pc = "idle"

\* run() ended through an exception of the session, and the client is closed
C12_Witness ==
    /\ proc = "exit"
    /\ error.cls = "KeyboardInterrupt"
    /\ closes = 1
    /\ http_client.state = "closed"

\* C13: a close of a client that is already closed raises nothing and changes
\* nothing: the client stays closed, no connection is in use, and the state
\* after the second close is the state after the first.
C13_SecondCloseChangesNothing ==
    [][(closes >= 1 /\ closes' = closes + 1) =>
          /\ http_client.state = "closed"
          /\ http_client' = http_client
          /\ conns = 0 /\ conns' = 0
          /\ error' = NoExc
          /\ tasks' = tasks]_vars

\* the client has been closed twice
C13_Witness ==
    /\ closes = 2
    /\ http_client.state = "closed"
    /\ conns = 0

\* C14: when one of the three required settings is absent or empty, the
\* process ends at import with a configuration error (ValueError), no client
\* is ever constructed and no request is attempted; a client that exists
\* carries the three settings, none absent or empty, in its default headers.
C14_StartupRefusesMissingConfig ==
    /\ (proc # "import" /\ \E k \in DOMAIN env : env[k] \in {Unset, EmptyStr}) =>
          /\ proc = "exit"
          /\ error.cls = "ValueError"
          /\ http_client = NoClient
          /\ closes = 0 /\ conns = 0
          /\ \A t \in Tasks : tasks[t] = IdleTask
    /\ http_client.state # "none" =>
          \A h \in DOMAIN http_client.headers :
              http_client.headers[h] \notin {Unset, EmptyStr}

\* the API version alone is empty, and the process has refused to start
C14_Witness ==
    /\ proc = "exit"
    /\ env = Environment(SetStr, SetStr, EmptyStr)
    /\ error.cls = "ValueError"
    /\ http_client = NoClient

\* C15: a tool of the tool surface that call_tool is asked for with valid
\* arguments invokes the client method of its name, which issues its request,
\* and a result of that method is returned as a text; a registered tool
\* function invokes the client method of its name.
C15_EachToolCallsOneClientMethod ==
    /\ (/\ pc = "done"
        /\ call.layer = "call_tool"
        /\ call.name \in ToolNames
        /\ ValidArguments(call.name, call.arguments)) =>
           /\ call.method = call.name
           /\ attempts >= 1
           /\ outcome.kind = "return" => (result.kind = "return" /\ result.value.t = "text")
    /\ (pc = "done" /\ call.layer = "tool") => call.method = call.name

\* C16: the connections in use never exceed 100.  A task that waits for a
\* connection holds none and suspends no other task: a request in flight can
\* still come back and an idle task can still call the client.  At the cap
\* the wait can end in the pool timeout, and an attempt that waited the 5
\* seconds of the pool timeout failed with the NetworkError of a timeout,
\* which is retried like any other NetworkError.
C16_PoolCapSuspendsOnlyItsTask ==
    /\ conns <= 100
    /\ \A t \in Tasks :
          tasks[t].pc = "acquire" =>
              /\ Held <= conns
              /\ conns = 100 => ENABLED PoolTimeout(t)
              /\ \A u \in Tasks \ {t} :
                    /\ tasks[u].pc = "request" => ENABLED Respond(u, HttpResponse(200, <<>>))
                    /\ tasks[u].pc = "idle" => ENABLED TaskCall(u)
    /\ \A t \in Tasks :
          tasks[t].waited > 0 =>
              /\ tasks[t].waited = 5
              /\ tasks[t].outcome.kind = "raise"
              /\ tasks[t].outcome.exc.cls = "NetworkError"
              /\ tasks[t].outcome.exc.message.fmt = "Network error: Request timeout: {e}"
              /\ tasks[t].pc = (IF tasks[t].attempt_number < 3 THEN "backoff" ELSE "done")

\* at the cap, one task waits for a connection while the request of the other
\* is in flight, and the attempt of a task has ended in the pool timeout
C16_Witness ==
    /\ conns = 100
    /\ tasks[1].pc = "acquire"
    /\ tasks[2].pc = "backoff"
    /\ tasks[2].waited = 5
    /\ tasks[2].outcome.exc.cls = "NetworkError"

\* C17: the attempts of one call follow one another in the calling task.  A
\* task issues at most one request per attempt and at most three attempts,
\* and an attempt after the first begins only from the back-off sleep that
\* followed a failed attempt (a NetworkError), as the next attempt in order.
\* The sleep suspends only its own task: while one task is in back-off a
\* request of another task in flight can come back and complete its call, and
\* an idle task can call the client and, with the client open and a
\* connection free, issue its request.
C17_AttemptsSequentialBackoffYields ==
    /\ [](\A t \in Tasks :
            /\ tasks[t].attempts <= tasks[t].attempt_number
            /\ tasks[t].attempt_number \in 1..3
            /\ tasks[t].pc = "backoff" =>
                  /\ tasks[t].outcome.kind = "raise"
                  /\ tasks[t].outcome.exc.cls = "NetworkError"
                  /\ ENABLED WakeTask(t)
                  /\ \A u \in Tasks \ {t} :
                        /\ tasks[u].pc = "request" =>
                              ENABLED (/\ Respond(u, HttpResponse(200, <<"{", "}">>))
                                       /\ tasks'[u].pc = "done"
                                       /\ tasks'[u].outcome.kind = "return"
                                       /\ tasks'[t] = tasks[t])
                        /\ tasks[u].pc = "idle" => ENABLED TaskCall(u)
                        /\ (tasks[u].pc = "idle" /\ http_client.state # "closed" /\ conns < 100) =>
                              ENABLED (TaskCall(u) /\ tasks'[u].pc = "request"))
    /\ [][\A t \in Tasks :
            /\ tasks'[t].attempt_number # tasks[t].attempt_number =>
                  \/ /\ tasks[t].pc = "backoff"
                     /\ tasks'[t].attempt_number = tasks[t].attempt_number + 1
                     /\ tasks'[t].pc \in {"request", "acquire", "done"}
                  \/ /\ tasks[t].pc = "done"
                     /\ tasks'[t] = IdleTask
            /\ tasks'[t].attempts > tasks[t].attempts =>
                  /\ tasks'[t].attempts = tasks[t].attempts + 1
                  /\ tasks[t].pc \in {"idle", "backoff", "acquire"}
                  /\ tasks'[t].pc = "request"]_vars

\* one task sleeps before its third attempt, two requests issued and failed,
\* while the call of the other has completed with a value
C17_Witness ==
    /\ tasks[1].pc = "backoff"
    /\ tasks[1].attempt_number = 2
    /\ tasks[1].attempts = 2
    /\ tasks[2].pc = "done"
    /\ tasks[2].outcome.kind = "return"

\* C18: the cancellation of a task, while it waits for a connection, while
\* its request is in flight or while it sleeps in back-off, changes no other
\* task and ends the call at once with the CancelledError itself, which is
\* no error of the taxonomy and is not retried: the attempts issued stay as
\* they are and none follows.  The connection of the request in flight goes back to the
\* pool, the connections in use stay between those the tasks hold and the
\* cap, and nothing but the end of the task is left for the cancelled call.
C18_CancellationEndsCall ==
    /\ [](/\ Held <= conns
          /\ conns <= 100
          /\ \A t \in Tasks :
                (tasks[t].outcome.kind = "raise" /\ tasks[t].outcome.exc.cls = "CancelledError") =>
                    /\ tasks[t].pc = "done"
                    /\ ~ ENABLED WakeTask(t)
                    /\ ~ ENABLED Acquire(t)
                    /\ ~ ENABLED (\E r \in PoolResponses : Respond(t, r)))
    /\ [][\A t \in Tasks :
            CancelTask(t) =>
                /\ tasks'[t].pc = "done"
                /\ tasks'[t].outcome.kind = "raise"
                /\ tasks'[t].outcome.exc.cls = "CancelledError"
                /\ tasks'[t].outcome.exc.cls \notin Taxonomy
                /\ tasks'[t].attempts = tasks[t].attempts
                /\ tasks'[t].attempt_number = tasks[t].attempt_number
                /\ conns' = conns - (IF tasks[t].pc = "request" THEN 1 ELSE 0)
                /\ \A u \in Tasks \ {t} : tasks'[u] = tasks[u]]_vars

\* a call cancelled after its second attempt was issued, no connection left
\* in use, and the other task free to call the client
C18_Witness ==
    /\ tasks[1].pc = "done"
    /\ tasks[1].outcome.exc.cls = "CancelledError"
    /\ tasks[1].attempts = 2
    /\ conns = 0
    /\ tasks[2].pc = "idle"

\* C19: add_to_watchlist(s) with s a string of digits issues POST
\* /sync/watchlist, with no query parameter and the JSON body
\* {"shows": [{"ids": {"trakt": n}}]}, n the integer value of s; every
\* request of the call is this one, and the request that is answered with a
\* 2xx status is the last of the call: one request when the first succeeds.
C19_AddToWatchlistRequest ==
    (/\ call.method = "add_to_watchlist"
     /\ call.args.show_id \in {<<"1", "2", "3">>, <<"7">>}) =>
        /\ call.request.method = "POST"
        /\ call.request.path = "/sync/watchlist"
        /\ call.request.query = <<>>
        /\ call.request.limit = None
        /\ call.request.extended = ""
        /\ call.request.json =
              JObject(<< << <<"s", "h", "o", "w", "s">>,
                 JArray(<< JObject(<< << <<"i", "d", "s">>,
                    JObject(<< << <<"t", "r", "a", "k", "t">>,
                       JNumber(IF call.args.show_id = <<"7">> THEN 7 ELSE 123)>> >>)>> >>) >>)>> >>)
        /\ (response.kind = "response" /\ ~RaisesForStatus(response.status_code)) =>
              /\ pc = "done"
              /\ answered = 1
              /\ attempts = Len(sleeps) + 1
        /\ (pc = "done" /\ sleeps = <<>>) => attempts = 1

\* add_to_watchlist("123") through call_tool, over after its only request was
\* answered 200
C19_Witness ==
    /\ pc = "done"
    /\ call.layer = "call_tool"
    /\ call.method = "add_to_watchlist"
    /\ call.args.show_id = <<"1", "2", "3">>
    /\ call.request.json = IdsPayload(K_shows, 123)
    /\ response.kind = "response"
    /\ response.status_code = 200
    /\ attempts = 1

\* C20: search_shows(q) issues GET /search/show with the query parameters
\* query = q and limit = 10 and nothing else, no JSON body; the limit is 10
\* whatever the caller passed, a limit among the arguments of the tool
\* included.
C20_SearchShowsRequest ==
    call.method = "search_shows" =>
        /\ call.request.method = "GET"
        /\ call.request.path = "/search/show"
        /\ call.request.path_id = <<>>
        /\ call.request.path_n = None
        /\ call.request.extended = ""
        /\ call.request.query = call.args.query
        /\ call.request.limit = 10
        /\ call.request.json = NoJson
        /\ call.layer = "call_tool" =>
              call.request.query = DictGet(call.arguments, K_query, PyNone).v

\* a search through call_tool whose arguments carry a limit of 5, its request
\* issued with limit 10
C20_Witness ==
    /\ pc = "done"
    /\ call.method = "search_shows"
    /\ call.layer = "call_tool"
    /\ HasKey(call.arguments, K_limit)
    /\ DictGet(call.arguments, K_limit, PyNone).v = 5
    /\ call.request.query = <<"D", "a", "r", "k">>
    /\ call.request.limit = 10
    /\ attempts = 1

\* C21: call_tool for get_trending_shows calls the client with the limit of
\* the arguments when it is an integer in 1..20 and with 10 when the
\* arguments have none, and no call of the client's get_trending_shows made
\* for the tool, hence no GET /shows/trending, carries a limit outside 1..20.
C21_TrendingLimitWithinRange ==
    (call.layer = "call_tool" /\ call.name = "get_trending_shows") =>
        /\ HasKey(call.arguments, K_limit) =>
              (DictGet(call.arguments, K_limit, PyNone).v \in 1..20 =>
                   /\ call.method = "get_trending_shows"
                   /\ call.args.limit = DictGet(call.arguments, K_limit, PyNone).v)
        /\ ~HasKey(call.arguments, K_limit) =>
              /\ call.method = "get_trending_shows"
              /\ call.args.limit = 10
        /\ call.method = "get_trending_shows" =>
              /\ call.args.limit \in 1..20
              /\ call.request.path_n \in 1..20

\* C22: format_trending_shows of the empty list is the empty-state message;
\* of a list of N >= 1 items it is the header followed by exactly N lines,
\* the k-th of them carrying the index k and the title, year and watchers of
\* the k-th item.
C22_TrendingLinesEnumerated ==
    (pc = "done" /\ call.method = "get_trending_shows" /\ outcome.kind = "return"
                 /\ IsList(outcome.value) /\ call.layer = "tool") =>
        IF outcome.value.v = <<>>
        THEN result = Return(Text(<<Line("[chart] No trending shows available at the moment.", <<>>)>>))
        ELSE /\ result.kind = "return"
             /\ Len(result.value.v) = Len(outcome.value.v) + 1
             /\ result.value.v[1].fmt = "[chart] **Trending Shows** (Top {len(trending)})\n"
             /\ \A k \in 1..Len(outcome.value.v) :
                   /\ result.value.v[k + 1].args[1] = JNumber(k)
                   /\ result.value.v[k + 1].args[2] =
                         DictGet(DictGet(outcome.value.v[k], K_show, EmptyResult), K_title, PyNone)
                   /\ result.value.v[k + 1].args[4] =
                         DictGet(outcome.value.v[k], K_watchers, JNumber(0))

\* C23: the text that get_show_season_episodes returns for season 0 never
\* names the season "season 0" or "Season 0", the empty list of episodes
\* included, and where it has a header the header labels the season
\* "Specials".
C23_SeasonZeroIsSpecials ==
    (/\ pc = "done"
     /\ call.method = "get_show_season_episodes"
     /\ call.args.season = 0
     /\ result.kind = "return") =>
        /\ \A k \in 1..Len(result.value.v) :
              result.value.v[k].fmt \notin
                  {"[tv] No episodes found for season {season_num}.",
                   "[tv] No episodes found for Season {season_num}."}
        /\ Len(result.value.v) > 1 =>
              result.value.v[1].args = <<Line("Specials", <<>>)>>

\* C24: a tool invocation whose client call failed with AuthenticationError
\* returns the text "Trakt API error: Authentication required. Please
\* configure TRAKT_ACCESS_TOKEN.", and a tool invocation whose client call
\* failed with any other error (not found, network, generic API error)
\* returns a different text.
C24_AuthErrorNamesCredential ==
    (pc = "done" /\ call.layer \in {"call_tool", "tool"} /\ outcome.kind = "raise") =>
        /\ result.kind = "return"
        /\ (outcome.exc.cls = "AuthenticationError") <=>
              (result.value.v =
                   <<Line("Trakt API error: {e.message}",
                          <<Msg("Authentication required. Please configure TRAKT_ACCESS_TOKEN.",
                                None, <<>>)>>)>>)

\* C25: in a call whose earlier attempts ended in network faults and were
\* slept on, the attempt that receives a non-2xx status is the last: the call
\* is over with AuthenticationError for 401, ResourceNotFoundError for 404
\* and a TraktAPIError carrying the status for every other one, whether that
\* attempt was the second or the third.
C25_StatusAfterFaultsEndsCall ==
    (/\ sleeps # <<>>
     /\ response.kind = "response"
     /\ RaisesForStatus(response.status_code)) =>
        /\ pc = "done"
        /\ outcome.kind = "raise"
        /\ outcome.exc.cls =
              (CASE response.status_code = 401 -> "AuthenticationError"
                 [] response.status_code = 404 -> "ResourceNotFoundError"
                 [] OTHER -> "TraktAPIError")
        /\ outcome.exc.status_code = response.status_code
        /\ answered = 1
        /\ attempts = Len(sleeps) + 1
        /\ attempts \in {2, 3}

\* the first attempt ended in a network fault, the second was answered 404
\* and the call is over after two attempts
C25_Witness ==
    /\ pc = "done"
    /\ Len(sleeps) = 1
    /\ attempts = 2
    /\ response.kind = "response"
    /\ response.status_code = 404
    /\ outcome.exc.cls = "ResourceNotFoundError"

\* C26: the attempts are counted per call.  Whatever the other calls on the
\* shared client do and did, a call begins at attempt 1 with no request
\* issued, a step of one call leaves the counters of every other call as
\* they are, a call never makes more than 3 attempts, and it gives up on
\* network errors only at its own third attempt.
C26_RetryBudgetPerCall ==
    /\ [](\A t \in Tasks :
            /\ tasks[t].attempt_number \in 1..3
            /\ tasks[t].attempts <= tasks[t].attempt_number
            /\ tasks[t].pc = "backoff" => tasks[t].attempt_number < 3
            /\ (/\ tasks[t].pc = "done"
                /\ tasks[t].outcome.kind = "raise"
                /\ tasks[t].outcome.exc.cls = "NetworkError") => tasks[t].attempt_number = 3)
    /\ [][\A t \in Tasks :
            /\ (tasks[t].pc = "idle" /\ tasks'[t].pc # "idle") =>
                  /\ tasks'[t].attempt_number = 1
                  /\ tasks'[t].attempts \in {0, 1}
            /\ tasks'[t] # tasks[t] =>
                  \A u \in Tasks \ {t} :
                      /\ tasks'[u].attempt_number = tasks[u].attempt_number
                      /\ tasks'[u].attempts = tasks[u].attempts]_vars

\* two calls in progress at once, each of which has issued its three requests
\* and ended with the network error of its third attempt
C26_Witness ==
    \A t \in {1, 2} :
        /\ tasks[t].pc = "done"
        /\ tasks[t].attempts = 3
        /\ tasks[t].attempt_number = 3
        /\ tasks[t].outcome.exc.cls = "NetworkError"

\* C27: call_tool for search_shows without "query", or for add_to_watchlist
\* or remove_from_watchlist without "show_id", is over at once: no client
\* method is entered, no request is built or issued, and the text returned
\* is "Missing required parameter: '<key>'".  No other invocation returns
\* that text: an invocation that entered a client method never does.
C27_MissingParameterText ==
    /\ (/\ call.layer = "call_tool"
        /\ \/ call.name = "search_shows" /\ ~HasKey(call.arguments, K_query)
           \/ /\ call.name \in {"add_to_watchlist", "remove_from_watchlist"}
              /\ ~HasKey(call.arguments, K_show_id)) =>
          /\ pc = "done"
          /\ call.method = ""
          /\ call.request.method = ""
          /\ attempts = 0
          /\ outcome.kind = "none"
          /\ result.kind = "return"
          /\ result.value.v =
                <<Line("Missing required parameter: {str(e)}",
                       <<Msg("'{key}'", None,
                             IF call.name = "search_shows" THEN K_query ELSE K_show_id)>>)>>
    /\ (/\ result.kind = "return"
        /\ result.value.t = "text"
        /\ \E k \in 1..Len(result.value.v) :
              result.value.v[k].fmt = "Missing required parameter: {str(e)}") =>
          /\ call.layer = "call_tool"
          /\ call.method = ""
          /\ attempts = 0
          /\ \/ call.name = "search_shows" /\ ~HasKey(call.arguments, K_query)
             \/ /\ call.name \in {"add_to_watchlist", "remove_from_watchlist"}
                /\ ~HasKey(call.arguments, K_show_id)

\* add_to_watchlist through call_tool with arguments that carry a limit only
C27_Witness ==
    /\ pc = "done"
    /\ call.layer = "call_tool"
    /\ call.name = "add_to_watchlist"
    /\ HasKey(call.arguments, K_limit)
    /\ ~HasKey(call.arguments, K_show_id)
    /\ result.kind = "return"
    /\ result.value.v[1].fmt = "Missing required parameter: {str(e)}"

\* C28: once the client is closed it stays closed and holds no connection.
\* A call of the client made after the close ends in its first attempt with
\* an exception, no request issued; the next attempt of a call that was in
\* back-off during the close ends that call the same way; no step issues a
\* request or takes a connection.
C28_NoRequestAfterClose ==
    /\ [](http_client.state = "closed" =>
            /\ closes >= 1
            /\ conns = 0
            /\ \A t \in Tasks : tasks[t].pc \notin {"acquire", "request"})
    /\ [][http_client.state = "closed" =>
            /\ http_client'.state = "closed"
            /\ conns' = 0
            /\ \A t \in Tasks :
                  /\ tasks'[t].attempts <= tasks[t].attempts
                  /\ (tasks[t].pc = "idle" /\ tasks'[t].pc # "idle") =>
                        /\ tasks'[t].pc = "done"
                        /\ tasks'[t].attempt_number = 1
                        /\ tasks'[t].attempts = 0
                        /\ tasks'[t].outcome.kind = "raise"
                        /\ tasks'[t].outcome.exc.cls = "RuntimeError"
                  /\ (tasks[t].pc = "backoff" /\ tasks'[t].pc # "backoff") =>
                        /\ tasks'[t].pc = "done"
                        /\ tasks'[t].outcome.kind = "raise"
                        /\ tasks'[t].outcome.exc.cls \in {"RuntimeError", "CancelledError"}]_vars

\* a call made on the closed client: over after one attempt, nothing issued
C28_Witness ==
    /\ http_client.state = "closed"
    /\ closes = 1
    /\ tasks[1].pc = "done"
    /\ tasks[1].attempt_number = 1
    /\ tasks[1].attempts = 0
    /\ tasks[1].outcome.exc.cls = "RuntimeError"

====
